---- MODULE Spec2Model ----
(***************************************************************************)
(* Model of simple_time_tracker.py: the idle/running/paused session        *)
(* machine of TimeTrackerApp, the modal EntryDialog, the two append-only   *)
(* logs (time_log.jsonl, time_log.csv) and the display refresh.            *)
(*                                                                         *)
(* Instants are integers counted in 1/Res of a second, so that a running   *)
(* segment can end at a sub-second instant; int(now - then) is int(now - then). *)
(* Text is a sequence of tokens: single characters or whole words.         *)
(***************************************************************************)
EXTENDS Integers, Sequences, FiniteSets, TLC

\* ---------------------------------------------------------------- bounds
Res      == 2    \* clock units per second
MaxNow   == 5    \* the wall clock stays within 1..MaxNow units
MaxSegs  == 2    \* running segments folded into one accumulation
MaxIds   == 2    \* entries built (uuid4 calls) in one run

\* ---------------------------------------------------------------- config
STATUSES == <<"done", "in_progress", "blocked", "review", "cancelled", "other">>

CSV_HEADER == <<"id", "date", "start_iso", "end_iso", "duration_seconds",
                "duration_hms", "ticket_url", "note", "status">>

None == -1

VARIABLES
    now,             \* time.time(), in units
    pc,              \* where the process is: boot, main loop, or a modal wait
    state,           \* self.state
    session_start,   \* self.session_start
    session_end,     \* self.session_end
    accum_seconds,   \* self.accum_seconds
    tick_job,        \* self._tick_job is not None
    last_resume_at,  \* self._last_resume_at
    elapsed_lbl,     \* text of self.elapsed_lbl
    btn,             \* enabled flag of play_btn, pause_btn, stop_btn
    fs,              \* which of LOG_DIR, CSV_PATH, JSONL_PATH exist
    jsonl,           \* lines of time_log.jsonl
    csv,             \* rows of time_log.csv (header row included)
    uuid_next,       \* number of uuid4() values drawn so far
    segs,            \* history: <<start, end>> of every running segment closed
                     \* since accum_seconds was last set to 0
    clock_back,      \* history: the wall clock has stepped backwards
    session_mark     \* history: <<entries in the JSONL log, rows in the CSV log>>
                     \* when the current session began (Play from idle)

vars == <<now, pc, state, session_start, session_end, accum_seconds, tick_job,
          last_resume_at, elapsed_lbl, btn, fs, jsonl, csv, uuid_next, segs,
          clock_back, session_mark>>

session == <<state, session_start, session_end, accum_seconds, last_resume_at>>
logs    == <<jsonl, csv>>

\* ---------------------------------------------------------------- text
DigitChars == <<"0", "1", "2", "3", "4", "5", "6", "7", "8", "9">>

RECURSIVE NatStr(_)
NatStr(n) == IF n < 10 THEN <<DigitChars[n + 1]>>
             ELSE NatStr(n \div 10) \o <<DigitChars[(n % 10) + 1]>>

\* str(n) of an int
IntStr(n) == IF n < 0 THEN <<"-">> \o NatStr(-n) ELSE NatStr(n)

\* f"{n:02d}"
Pad2(n) == IF n >= 0 /\ n < 10 THEN <<"0">> \o NatStr(n) ELSE IntStr(n)

RECURSIVE LStrip(_)
LStrip(s) == IF s # <<>> /\ Head(s) = " " THEN LStrip(Tail(s)) ELSE s

RECURSIVE RStrip(_)
RStrip(s) == IF s # <<>> /\ s[Len(s)] = " " THEN RStrip(SubSeq(s, 1, Len(s) - 1)) ELSE s

\* str.strip()
Strip(s) == RStrip(LStrip(s))

\* ---------------------------------------------------------------- helpers
\* int(x) of a float x given in units: truncation towards zero
int(u) == IF u >= 0 THEN u \div Res ELSE -((-u) \div Res)

fmt_hms(seconds) ==
    Pad2(seconds \div 3600) \o <<":">> \o Pad2((seconds % 3600) \div 60)
        \o <<":">> \o Pad2(seconds % 60)

\* datetime.fromtimestamp(t, tz=utc).isoformat(): seconds, fraction, offset
isoformat(t) == IntStr(t \div Res) \o <<".">> \o IntStr(t % Res) \o <<"+00:00">>

\* start_dt.astimezone().strftime("%Y-%m-%d"): the day the instant falls in
strftime(t) == <<"d">> \o IntStr((t \div Res) \div 86400)

\* str(uuid.uuid4()): a value never drawn before
uuid4(n) == <<"u">> \o IntStr(n)

\* x or y, for an optional instant x (None and 0.0 are falsy)
Or(x, y) == IF x = None \/ x = 0 THEN y ELSE x

Last(s) == s[Len(s)]

\* the data rows of time_log.csv: everything after the header row
CsvRows == IF csv = <<>> THEN <<>> ELSE Tail(csv)

\* ---------------------------------------------------------------- inputs
\* what the dialog's three variables may hold when Save is pressed: the status is a
\* value of the read-only list, or blank
DialogInputs ==
    { [link |-> <<>>,                note |-> <<" ">>,           status |-> <<" ">>],
      [link |-> <<" ", "T-1", " ">>, note |-> <<"a", ",", "b">>, status |-> <<STATUSES[4]>>] }

\* ---------------------------------------------------------------- entries
TimeEntry(id, date, start_iso, end_iso, duration_seconds, duration_hms, ticket_url, note, status) ==
    [id |-> id, date |-> date, start_iso |-> start_iso, end_iso |-> end_iso,
     duration_seconds |-> duration_seconds, duration_hms |-> duration_hms,
     ticket_url |-> ticket_url, note |-> note, status |-> status]

\* ticket_url and note change places in the row
to_row_swapped(e) == <<e.id, e.date, e.start_iso, e.end_iso, e.duration_seconds,
                       e.duration_hms, e.note, e.ticket_url, e.status>>

to_row(e) == <<e.id, e.date, e.start_iso, e.end_iso, e.duration_seconds,
               e.duration_hms, e.ticket_url, e.note, e.status>>

\* csv.writer.writerow: every cell is written as text
writerow(row) == [i \in 1..Len(row) |-> IF i = 5 THEN IntStr(row[i]) ELSE row[i]]

\* the fields of the dataclass, in the order asdict yields them
TimeEntryFields == <<"id", "date", "start_iso", "end_iso", "duration_seconds",
                     "duration_hms", "ticket_url", "note", "status">>

\* json.dumps(asdict(entry)): the line's "key": value members, in field order
json_dumps(e) == [i \in 1..Len(TimeEntryFields) |-> <<TimeEntryFields[i], e[TimeEntryFields[i]]>>]

\* ---------------------------------------------------------------- state helpers
\* Stop is enabled only while running
Buttons_stop_running_only(st) == [play  |-> st \in {"idle", "paused"},
                                 pause |-> st = "running",
                                 stop  |-> st = "running"]

Buttons(st) == [play  |-> st \in {"idle", "paused"},
                pause |-> st = "running",
                stop  |-> st \in {"running", "paused"}]

\* the label _tick computes from the given fields at the current instant
TickLabel(st, acc, last) ==
    fmt_hms(IF st = "running" /\ last # None THEN acc + int(now - last) ELSE acc)

\* the segment overwrites the accumulation instead of being added to it
Fold_overwrite(acc, last, t) == int(t - last)

\* new value of accum_seconds when the running segment is folded in
Fold(acc, last, t) == acc + int(t - last)

\* a blank status is kept as it is
Details_blank_kept(link, note, status) ==
    [ticket_url |-> Strip(link), note |-> Strip(note), status |-> Strip(status)]

\* EntryDialog._save: the result dictionary
Details(link, note, status) ==
    [ticket_url |-> Strip(link),
     note       |-> Strip(note),
     status     |-> IF Strip(status) = <<>> THEN <<"other">> ELSE Strip(status)]

\* ---------------------------------------------------------------- start-up
Init ==
    /\ now = 1
    /\ pc = "boot"
    /\ state = "idle"
    /\ session_start = None
    /\ session_end = None
    /\ accum_seconds = 0
    /\ tick_job = FALSE
    /\ last_resume_at = None
    /\ elapsed_lbl = fmt_hms(0)
    /\ btn = Buttons("idle")
    /\ fs \in {{}, {"dir"}, {"dir", "csv"}, {"dir", "jsonl"}, {"dir", "csv", "jsonl"}}
    /\ jsonl = <<>>
    /\ csv = IF "csv" \in fs THEN <<CSV_HEADER>> ELSE <<>>
    /\ uuid_next = 0
    /\ segs = <<>>
    /\ clock_back = FALSE
    /\ session_mark = <<0, 0>>

\* ensure_paths: each creation it attempts may raise; fail names the one that does
ensure_paths(fail) ==
    /\ fail \in {"none"} \cup ({"dir", "csv", "jsonl"} \ fs)
    /\ fs' = IF fail = "dir" THEN fs
             ELSE IF fail = "csv" THEN fs \cup {"dir"}
             ELSE IF fail = "jsonl" THEN fs \cup {"dir", "csv"}
             ELSE {"dir", "csv", "jsonl"}
    /\ csv' = IF "csv" \notin fs /\ fail \in {"none", "jsonl"} THEN <<CSV_HEADER>> ELSE csv
    /\ jsonl' = jsonl

\* TimeTrackerApp.__init__: an exception of ensure_paths leaves the constructor
\* and, uncaught at module level, ends the process
init ==
    /\ pc = "boot"
    /\ \E fail \in {"none", "dir", "csv", "jsonl"} :
          /\ ensure_paths(fail)
          /\ pc' = IF fail = "none" THEN "main" ELSE "crashed"
    /\ state' = "idle"
    /\ session_start' = None
    /\ session_end' = None
    /\ accum_seconds' = 0
    /\ tick_job' = FALSE
    /\ last_resume_at' = None
    /\ btn' = Buttons("idle")
    /\ UNCHANGED <<now, elapsed_lbl, uuid_next, segs, clock_back, session_mark>>

\* ---------------------------------------------------------------- handlers
\* Play that stamps session_start on a resume as well
on_play_restamps ==
    /\ pc = "main"
    /\ IF state = "running"
       THEN UNCHANGED vars
       ELSE /\ state = "paused" => Len(segs) < MaxSegs
            /\ session_start' = now
            /\ accum_seconds' = IF state = "idle" THEN 0 ELSE accum_seconds
            /\ segs' = IF state = "idle" THEN <<>> ELSE segs
            /\ state' = "running"
            /\ last_resume_at' = now
            /\ tick_job' = TRUE
            /\ elapsed_lbl' = IF tick_job THEN elapsed_lbl
                              ELSE TickLabel("running", accum_seconds', now)
            /\ btn' = Buttons("running")
            /\ session_mark' = IF state = "idle" THEN <<Len(jsonl), Len(CsvRows)>>
                               ELSE session_mark
            /\ UNCHANGED <<now, pc, session_end, fs, jsonl, csv, uuid_next, clock_back>>

\* Play that the dialog's grab does not keep out
on_play_ungrabbed ==
    /\ pc \in {"main", "dialog"}
    /\ IF state = "running"
       THEN UNCHANGED vars
       ELSE /\ state = "paused" => Len(segs) < MaxSegs
            /\ session_start' = IF state = "idle" THEN now ELSE session_start
            /\ accum_seconds' = IF state = "idle" THEN 0 ELSE accum_seconds
            /\ segs' = IF state = "idle" THEN <<>> ELSE segs
            /\ state' = "running"
            /\ last_resume_at' = now
            /\ tick_job' = TRUE
            /\ elapsed_lbl' = IF tick_job THEN elapsed_lbl
                              ELSE TickLabel("running", accum_seconds', now)
            /\ btn' = Buttons("running")
            /\ session_mark' = IF state = "idle" THEN <<Len(jsonl), Len(CsvRows)>>
                               ELSE session_mark
            /\ UNCHANGED <<now, pc, session_end, fs, jsonl, csv, uuid_next, clock_back>>

\* Play without the early return for a session that is already running
on_play_restarts ==
    /\ pc = "main"
    /\ state = "paused" => Len(segs) < MaxSegs
    /\ session_start' = IF state = "idle" THEN now ELSE session_start
    /\ accum_seconds' = IF state = "idle" THEN 0 ELSE accum_seconds
    /\ segs' = IF state = "idle" THEN <<>> ELSE segs
    /\ state' = "running"
    /\ last_resume_at' = now
    /\ tick_job' = TRUE
    /\ elapsed_lbl' = IF tick_job THEN elapsed_lbl
                      ELSE TickLabel("running", accum_seconds', now)
    /\ btn' = Buttons("running")
    /\ session_mark' = IF state = "idle" THEN <<Len(jsonl), Len(CsvRows)>>
                       ELSE session_mark
    /\ UNCHANGED <<now, pc, session_end, fs, jsonl, csv, uuid_next, clock_back>>

on_play ==
    /\ pc = "main"
    /\ IF state = "running"
       THEN UNCHANGED vars
       ELSE /\ state = "paused" => Len(segs) < MaxSegs
            /\ session_start' = IF state = "idle" THEN now ELSE session_start
            /\ accum_seconds' = IF state = "idle" THEN 0 ELSE accum_seconds
            /\ segs' = IF state = "idle" THEN <<>> ELSE segs
            /\ state' = "running"
            /\ last_resume_at' = now
            /\ tick_job' = TRUE
            /\ elapsed_lbl' = IF tick_job THEN elapsed_lbl
                              ELSE TickLabel("running", accum_seconds', now)
            /\ btn' = Buttons("running")
            /\ session_mark' = IF state = "idle" THEN <<Len(jsonl), Len(CsvRows)>>
                               ELSE session_mark
            /\ UNCHANGED <<now, pc, session_end, fs, jsonl, csv, uuid_next, clock_back>>

\* Pause that leaves _last_resume_at set
on_pause_keeps_resume ==
    /\ pc = "main"
    /\ IF state # "running"
       THEN UNCHANGED vars
       ELSE /\ accum_seconds' = IF last_resume_at # None
                                THEN Fold(accum_seconds, last_resume_at, now)
                                ELSE accum_seconds
            /\ segs' = Append(segs, <<last_resume_at, now>>)
            /\ state' = "paused"
            /\ btn' = Buttons("paused")
            /\ UNCHANGED <<now, pc, session_start, session_end, tick_job, elapsed_lbl,
                           last_resume_at, fs, jsonl, csv, uuid_next, clock_back,
                           session_mark>>

on_pause ==
    /\ pc = "main"
    /\ IF state # "running"
       THEN UNCHANGED vars
       ELSE /\ accum_seconds' = IF last_resume_at # None
                                THEN Fold(accum_seconds, last_resume_at, now)
                                ELSE accum_seconds
            /\ segs' = Append(segs, <<last_resume_at, now>>)
            /\ last_resume_at' = None
            /\ state' = "paused"
            /\ btn' = Buttons("paused")
            /\ UNCHANGED <<now, pc, session_start, session_end, tick_job, elapsed_lbl,
                           fs, jsonl, csv, uuid_next, clock_back, session_mark>>

\* a reset that forgets to clear session_end
reset_session_keeps_end ==
    /\ accum_seconds' = 0
    /\ session_start' = None
    /\ session_end' = session_end
    /\ state' = "idle"
    /\ btn' = Buttons("idle")
    /\ tick_job' = TRUE
    /\ elapsed_lbl' = IF tick_job THEN elapsed_lbl ELSE TickLabel("idle", 0, last_resume_at)
    /\ segs' = <<>>

\* _reset_session, as the assignments it makes
reset_session ==
    /\ accum_seconds' = 0
    /\ session_start' = None
    /\ session_end' = None
    /\ state' = "idle"
    /\ btn' = Buttons("idle")
    /\ tick_job' = TRUE
    /\ elapsed_lbl' = IF tick_job THEN elapsed_lbl ELSE TickLabel("idle", 0, last_resume_at)
    /\ segs' = <<>>

\* no zero test at all: every Stop goes on to the dialog
StopBranch_always(total_sec) == "dialog"

\* the zero test is strict: a total of 0 goes on to the dialog
StopBranch_strict(total_sec) == IF total_sec < 0 THEN "nothing" ELSE "dialog"

\* where on_stop goes with the total it computed
StopBranch(total_sec) == IF total_sec <= 0 THEN "nothing" ELSE "dialog"

\* on_stop up to its first modal wait: the "nothing to save" box or the dialog
on_stop ==
    /\ pc = "main"
    /\ IF state \notin {"running", "paused"}
       THEN UNCHANGED vars
       ELSE /\ accum_seconds' = IF state = "running" /\ last_resume_at # None
                                THEN Fold(accum_seconds, last_resume_at, now)
                                ELSE accum_seconds
            /\ segs' = IF state = "running" THEN Append(segs, <<last_resume_at, now>>)
                       ELSE segs
            /\ last_resume_at' = None
            /\ state' = "idle"
            /\ session_end' = now
            /\ btn' = Buttons("idle")
            /\ pc' = StopBranch(accum_seconds')
            /\ UNCHANGED <<now, session_start, tick_job, elapsed_lbl, fs, jsonl, csv,
                           uuid_next, clock_back, session_mark>>

\* the "Nothing to save (duration is 0s)." box is closed: _reset_session, return
ack_nothing ==
    /\ pc = "nothing"
    /\ reset_session
    /\ pc' = "main"
    /\ UNCHANGED <<now, last_resume_at, fs, jsonl, csv, uuid_next, clock_back, session_mark>>

\* a cancel that discards the session instead of rolling back to paused
EntryDialog_cancel_discards ==
    /\ pc = "dialog"
    /\ reset_session
    /\ pc' = "main"
    /\ UNCHANGED <<now, last_resume_at, fs, jsonl, csv, uuid_next, clock_back, session_mark>>

\* EntryDialog._cancel, then on_stop from wait_window to its return
EntryDialog_cancel ==
    /\ pc = "dialog"
    /\ state' = "paused"
    /\ btn' = Buttons("paused")
    /\ pc' = "main"
    /\ UNCHANGED <<now, session_start, session_end, accum_seconds, tick_job,
                   last_resume_at, elapsed_lbl, fs, jsonl, csv, uuid_next, segs,
                   clock_back, session_mark>>

\* the duration is re-derived from session_end - session_start
BuildEntry_rederived(details) ==
    TimeEntry(uuid4(uuid_next),
              strftime(Or(session_start, now)),
              isoformat(Or(session_start, now)),
              isoformat(Or(session_end, now)),
              int(session_end - session_start),
              fmt_hms(int(session_end - session_start)),
              details.ticket_url, details.note, details.status)

\* the entry on_stop builds from the session and the dialog's result
BuildEntry(details) ==
    TimeEntry(uuid4(uuid_next),
              strftime(Or(session_start, now)),
              isoformat(Or(session_start, now)),
              isoformat(Or(session_end, now)),
              accum_seconds,
              fmt_hms(accum_seconds),
              details.ticket_url, details.note, details.status)

\* the two appends in the other order: the CSV row first, then the JSONL line
WriteLogs_csv_first(entry, jok, cok) ==
    /\ csv' = IF cok THEN Append(csv, writerow(to_row(entry))) ELSE csv
    /\ jsonl' = IF cok /\ jok THEN Append(jsonl, json_dumps(entry)) ELSE jsonl
    /\ fs' = fs \cup (IF cok THEN {"csv"} ELSE {}) \cup (IF jok /\ cok THEN {"jsonl"} ELSE {})
    /\ pc' = IF jok /\ cok THEN "saved" ELSE "error"

\* the try block of on_stop: the JSONL append, then the CSV append; each may raise
WriteLogs(entry, jok, cok) ==
    /\ jsonl' = IF jok THEN Append(jsonl, json_dumps(entry)) ELSE jsonl
    /\ csv' = IF jok /\ cok THEN Append(csv, writerow(to_row(entry))) ELSE csv
    /\ fs' = fs \cup (IF jok THEN {"jsonl"} ELSE {}) \cup (IF jok /\ cok THEN {"csv"} ELSE {})
    /\ pc' = IF jok /\ cok THEN "saved" ELSE "error"

\* EntryDialog._save, then on_stop from wait_window to the message box it shows
EntryDialog_save ==
    /\ pc = "dialog"
    /\ uuid_next < MaxIds
    /\ \E in \in DialogInputs, jok \in BOOLEAN, cok \in BOOLEAN :
          WriteLogs(BuildEntry(Details(in.link, in.note, in.status)), jok, cok)
    /\ uuid_next' = uuid_next + 1
    /\ UNCHANGED <<now, state, session_start, session_end, accum_seconds, tick_job,
                   last_resume_at, elapsed_lbl, btn, segs, clock_back, session_mark>>

\* a failed write that is treated like a saved entry
ack_error_resets ==
    /\ pc = "error"
    /\ reset_session
    /\ pc' = "main"
    /\ UNCHANGED <<now, last_resume_at, fs, jsonl, csv, uuid_next, clock_back, session_mark>>

\* the "Failed to write logs" box is closed: back to paused, return
ack_error ==
    /\ pc = "error"
    /\ state' = "paused"
    /\ btn' = Buttons("paused")
    /\ pc' = "main"
    /\ UNCHANGED <<now, session_start, session_end, accum_seconds, tick_job,
                   last_resume_at, elapsed_lbl, fs, jsonl, csv, uuid_next, segs,
                   clock_back, session_mark>>

\* the "Entry saved." box is closed: _reset_session
ack_saved ==
    /\ pc = "saved"
    /\ reset_session
    /\ pc' = "main"
    /\ UNCHANGED <<now, last_resume_at, fs, jsonl, csv, uuid_next, clock_back, session_mark>>

\* the toggle with its two branches exchanged
toggle_play_pause_inverted ==
    IF state = "running" THEN on_play ELSE on_pause

\* <space>
toggle_play_pause ==
    IF state = "running" THEN on_pause ELSE on_play

\* <Control-s>
ctrl_s == on_stop

\* a tick that does not schedule the next one
tick_once ==
    /\ pc \in {"main", "nothing", "dialog", "error", "saved"}
    /\ tick_job
    /\ elapsed_lbl' = TickLabel(state, accum_seconds, last_resume_at)
    /\ tick_job' = FALSE
    /\ UNCHANGED <<now, pc, state, session_start, session_end, accum_seconds,
                   last_resume_at, btn, fs, jsonl, csv, uuid_next, segs, clock_back,
                   session_mark>>

\* the after() callback; the nested loops of the modal waits run it too
tick ==
    /\ pc \in {"main", "nothing", "dialog", "error", "saved"}
    /\ tick_job
    /\ elapsed_lbl' = TickLabel(state, accum_seconds, last_resume_at)
    /\ UNCHANGED <<now, pc, state, session_start, session_end, accum_seconds, tick_job,
                   last_resume_at, btn, fs, jsonl, csv, uuid_next, segs, clock_back, session_mark>>

\* ---------------------------------------------------------------- wall clock
advance ==
    /\ pc # "boot"
    /\ pc # "crashed"
    /\ now < MaxNow
    /\ now' = now + 1
    /\ UNCHANGED <<pc, state, session_start, session_end, accum_seconds, tick_job,
                   last_resume_at, elapsed_lbl, btn, fs, jsonl, csv, uuid_next, segs,
                   clock_back, session_mark>>

\* the system clock is set back, at most once (time.time() is not monotonic)
step_back ==
    /\ ~clock_back
    /\ pc # "boot"
    /\ pc # "crashed"
    /\ now > 1
    /\ now' = now - 1
    /\ clock_back' = TRUE
    /\ UNCHANGED <<pc, state, session_start, session_end, accum_seconds, tick_job,
                   last_resume_at, elapsed_lbl, btn, fs, jsonl, csv, uuid_next, segs,
                   session_mark>>

Next ==
    \/ init
    \/ on_play
    \/ on_pause
    \/ on_stop
    \/ ack_nothing
    \/ EntryDialog_cancel
    \/ EntryDialog_save
    \/ ack_error
    \/ ack_saved
    \/ toggle_play_pause
    \/ ctrl_s
    \/ tick
    \/ advance
    \/ step_back

Spec == Init /\ [][Next]_vars

\* ================================================================ claims
RECURSIVE SumTrunc(_)
\* sum over the segments of each segment's duration truncated to whole seconds
SumTrunc(ss) == IF ss = <<>> THEN 0
                ELSE int(Head(ss)[2] - Head(ss)[1]) + SumTrunc(Tail(ss))

\* a Pause or a Stop has just folded the running segment, or left it folded
AfterPauseOrStop == \/ pc \in {"nothing", "dialog"}
                    \/ pc = "main" /\ state = "paused"

\* C1: right after any Pause or Stop, accum_seconds is the sum, over every running
\* segment since accum_seconds was last reset to zero, of that segment's duration
\* truncated to whole seconds.
C1_AccumIsSumOfTruncatedSegments ==
    AfterPauseOrStop => accum_seconds = SumTrunc(segs)

\* two segments, one of them with a fraction of a second that truncation drops
C1_Witness ==
    /\ pc = "main"
    /\ state = "paused"
    /\ Len(segs) = 2
    /\ accum_seconds > 0
    /\ \E i \in 1..2 : (segs[i][2] - segs[i][1]) % Res # 0

\* the object a reader of a line of the structured log gets back
json_loads(line) ==
    [k \in {line[i][1] : i \in DOMAIN line} |->
        line[CHOOSE i \in DOMAIN line : line[i][1] = k][2]]

\* the cell of column i of the tabular log that holds the value v of the structured log
CsvCell(i, v) == IF CSV_HEADER[i] = "duration_seconds" THEN IntStr(v) ELSE v

\* the row is the record, field by field, in the declared column order
SameEntry(rec, row) ==
    /\ DOMAIN rec = {CSV_HEADER[i] : i \in 1..Len(CSV_HEADER)}
    /\ Len(row) = Len(CSV_HEADER)
    /\ \A i \in 1..Len(CSV_HEADER) : row[i] = CsvCell(i, rec[CSV_HEADER[i]])

\* C2: a successful Stop (total > 0, prompt confirmed, both appends succeed) appends
\* exactly one record to each log, the two carrying the same id and the same field
\* values in the declared column order, and leaves the machine idle with
\* accum_seconds = 0.
C2_SuccessfulStopAppendsOneMatchingPair ==
    [][ /\ (pc = "dialog" /\ pc' = "saved") =>
              /\ accum_seconds > 0
              /\ jsonl' = Append(jsonl, Last(jsonl'))
              /\ csv' = Append(csv, Last(csv'))
              /\ SameEntry(json_loads(Last(jsonl')), Last(csv'))
        /\ (pc = "saved" /\ pc' # "saved") =>
              /\ pc' = "main"
              /\ state' = "idle"
              /\ accum_seconds' = 0
              /\ UNCHANGED logs ]_vars

\* the session was saved and reset: one entry in each log, the idle machine
C2_Witness ==
    /\ pc = "main"
    /\ state = "idle"
    /\ accum_seconds = 0
    /\ Len(jsonl) = 1
    /\ Len(CsvRows) = 1
    /\ json_loads(jsonl[1]).ticket_url # json_loads(jsonl[1]).note

\* C3: when Stop yields total > 0 and the prompt is cancelled, the machine ends paused
\* with accum_seconds equal to the total that Stop computed (the folded segment
\* included), last_resume_at clear, and neither log changed.
C3_CancelRollsBackToPaused ==
    [][ /\ (pc = "main" /\ pc' = "dialog") =>
              accum_seconds' > 0 /\ accum_seconds' = SumTrunc(segs') /\ UNCHANGED logs
        /\ (pc = "dialog" /\ pc' = pc) => UNCHANGED <<accum_seconds, logs>>
        /\ (pc = "dialog" /\ pc' = "main") =>
              /\ state' = "paused"
              /\ accum_seconds' = accum_seconds
              /\ accum_seconds' > 0
              /\ last_resume_at' = None
              /\ UNCHANGED logs ]_vars

\* paused with a recorded session_end and no entry ever built: the Stop was cancelled
C3_Witness ==
    /\ pc = "main"
    /\ state = "paused"
    /\ session_end # None
    /\ uuid_next = 0
    /\ accum_seconds > 0

\* C4: if either append fails during a confirmed Stop, an error is shown, and the
\* machine ends paused (not idle) with accum_seconds equal to the total of that Stop
\* and session_start preserved, Stop being enabled again for the retry.
C4_AppendFailureRollsBackToPaused ==
    [][ /\ (pc = "dialog" /\ uuid_next' # uuid_next /\ CsvRows' = CsvRows) =>
              /\ pc' = "error"
              /\ UNCHANGED <<accum_seconds, session_start>>
        /\ (pc = "error" /\ pc' = pc) => UNCHANGED <<accum_seconds, session_start, state>>
        /\ (pc = "error" /\ pc' # pc) =>
              /\ pc' = "main"
              /\ state' = "paused"
              /\ accum_seconds' = accum_seconds
              /\ accum_seconds' = SumTrunc(segs')
              /\ accum_seconds' > 0
              /\ session_start' = session_start
              /\ session_start' # None
              /\ btn'.stop ]_vars

\* paused again after a Stop whose entry was built but did not reach the tabular log
C4_Witness ==
    /\ pc = "main"
    /\ state = "paused"
    /\ uuid_next = 1
    /\ CsvRows = <<>>
    /\ accum_seconds > 0
    /\ btn.stop

\* C5: a Stop whose resulting accum_seconds is 0 never appends to either log, never
\* opens the prompt, shows "nothing to save", and ends idle with accum_seconds = 0.
C5_ZeroStopDiscards ==
    [][ /\ (pc = "main" /\ pc' # "main" /\ accum_seconds' = 0) =>
              pc' = "nothing" /\ UNCHANGED <<logs, uuid_next>>
        /\ (pc = "nothing" /\ pc' = pc) => UNCHANGED <<logs, uuid_next>>
        /\ (pc = "nothing" /\ pc' # pc) =>
              /\ pc' = "main"
              /\ state' = "idle"
              /\ accum_seconds' = 0
              /\ UNCHANGED <<logs, uuid_next>> ]_vars

\* the "nothing to save" box after a segment too short to count
C5_Witness ==
    /\ pc = "nothing"
    /\ accum_seconds = 0
    /\ Len(segs) >= 1

\* C6: Play invoked while running, Pause invoked while idle or paused, and Stop invoked
\* while idle are no-ops: no variable changes (state, accum_seconds, last_resume_at,
\* session_start, session_end, both logs), and no box or prompt opens.
C6_DisabledInvocationsAreNoOps ==
    [][ ( \/ on_play /\ state = "running"
          \/ on_pause /\ state \in {"idle", "paused"}
          \/ on_stop /\ state = "idle" ) => UNCHANGED vars ]_vars

\* a running session whose clock has moved on: a second Play would show
C6_Witness ==
    /\ pc = "main"
    /\ state = "running"
    /\ now > last_resume_at
    /\ accum_seconds > 0

\* C7: a record is appended to either log only inside a Stop whose total is > 0 and
\* whose prompt was confirmed; Play, Pause, the tick, a zero-duration Stop and a
\* cancelled Stop never write to either log; every persisted entry has
\* duration_seconds > 0.
C7_AppendsOnlyInConfirmedNonZeroStop ==
    /\ [][ (jsonl' # jsonl \/ CsvRows' # CsvRows) =>
              /\ pc = "dialog"
              /\ pc' \in {"saved", "error"}
              /\ accum_seconds > 0
              /\ uuid_next' = uuid_next + 1 ]_vars
    /\ [](\A i \in 1..Len(jsonl) : json_loads(jsonl[i]).duration_seconds > 0)
    /\ [](\A i \in 1..Len(CsvRows) :
             CsvRows[i][5] # IntStr(0) /\ Head(CsvRows[i][5]) # "-")

\* an entry is in both logs, after a session that was also paused, cancelled and ticked
C7_Witness ==
    /\ pc = "saved"
    /\ Len(jsonl) = 1
    /\ Len(CsvRows) = 1
    /\ Len(segs) = 2
    /\ tick_job

\* C8: each session (from the idle-to-running Play to the next reset to idle) produces
\* at most one persisted entry: at most one record in the structured log and at most
\* one in the tabular log, across cancels, append failures and retried Stops.
C8_AtMostOneEntryPerSession ==
    /\ Len(jsonl) - session_mark[1] <= 1
    /\ Len(CsvRows) - session_mark[2] <= 1

RECURSIVE Gaps(_)
\* the time between the end of each segment and the start of the next
Gaps(ss) == IF Len(ss) < 2 THEN 0 ELSE (ss[2][1] - ss[1][2]) + Gaps(Tail(ss))

\* the time of the session spent paused, up to session_end
PausedUnits == Gaps(segs) + (IF segs = <<>> THEN 0 ELSE session_end - Last(segs)[2])

\* (session end - session start) minus the total time spent paused
ActiveUnits == (session_end - session_start) - PausedUnits

\* round() of a duration given in units: to the nearest second, a tie to the even one
Round(u) == LET q == u \div Res
                r == u % Res
            IN  IF 2 * r < Res THEN q
                ELSE IF 2 * r > Res THEN q + 1
                ELSE IF q % 2 = 0 THEN q ELSE q + 1

\* C9 as stated: every persisted entry has duration_seconds =
\* round((session end - session start) - total time paused).
C9_DurationIsRoundedActiveTime ==
    pc = "saved" => json_loads(Last(jsonl)).duration_seconds = Round(ActiveUnits)

\* C9, amended: every persisted entry's duration_seconds is the sum of the whole-second
\* truncations of the session's running segments; while the clock has not stepped back
\* it is at most the active time and short of it by less than a second per segment.
C9_DurationIsSumOfTruncations ==
    pc = "saved" =>
       /\ json_loads(Last(jsonl)).duration_seconds = SumTrunc(segs)
       /\ ~clock_back =>
             /\ json_loads(Last(jsonl)).duration_seconds * Res <= ActiveUnits
             /\ json_loads(Last(jsonl)).duration_seconds * Res > ActiveUnits - Len(segs) * Res

\* a saved entry of two segments whose duration is not the rounded active time
C9_Witness ==
    /\ pc = "saved"
    /\ ~clock_back
    /\ Len(segs) = 2
    /\ json_loads(Last(jsonl)).duration_seconds # Round(ActiveUnits)

\* C10: a storage I/O failure never ends the process, whether it is the creation of
\* the log directory or files, or an append, that fails.
C10_StorageFailureNeverCrashes == pc # "crashed"

\* C11: after every handler completes, Play is enabled exactly when state is idle or
\* paused, Pause exactly when state is running, Stop exactly when state is running
\* or paused.
C11_ButtonsMatchState ==
    pc = "main" =>
       /\ btn.play  <=> state \in {"idle", "paused"}
       /\ btn.pause <=> state = "running"
       /\ btn.stop  <=> state \in {"running", "paused"}

\* paused by the roll-back of a cancelled Stop, with Play and Stop enabled again
C11_Witness ==
    /\ pc = "main"
    /\ state = "paused"
    /\ session_end # None
    /\ btn.play /\ ~btn.pause /\ btn.stop

\* the text of every status of the enumeration
StatusTexts == {<<STATUSES[i]>> : i \in 1..Len(STATUSES)}

\* C12: every persisted entry's status is one of done, in_progress, blocked, review,
\* cancelled, other; a status that is blank after trimming is persisted as other.
C12_StatusIsEnumerated ==
    /\ \A i \in 1..Len(jsonl) : json_loads(jsonl[i]).status \in StatusTexts
    /\ \A i \in 1..Len(CsvRows) : CsvRows[i][9] \in StatusTexts
    /\ \A in \in DialogInputs :
          Strip(in.status) = <<>> =>
             Details(in.link, in.note, in.status).status = <<"other">>

\* an entry persisted as other in both logs: no input selects other, it was left blank
C12_Witness ==
    /\ Len(jsonl) >= 1
    /\ Len(CsvRows) >= 1
    /\ json_loads(jsonl[1]).status = <<"other">>
    /\ CsvRows[1][9] = <<"other">>
    /\ \A in \in DialogInputs : in.status # <<"other">>
    /\ \E in \in DialogInputs : Strip(in.status) = <<>>

\* C13: in every state the toggle has exactly the effect of Play when the state is not
\* running and exactly the effect of Pause when it is running; the commit action has
\* exactly the effect of Stop.
C13_ShortcutsMapToHandlers ==
    [][ /\ state # "running" => (toggle_play_pause <=> on_play)
        /\ state = "running" => (toggle_play_pause <=> on_pause)
        /\ ctrl_s <=> on_stop ]_vars

\* a session paused and resumed: both branches of the toggle have had a state to act in
C13_Witness ==
    /\ pc = "main"
    /\ state = "running"
    /\ Len(segs) = 1
    /\ last_resume_at > session_start

\* C14: while the prompt opened by Stop is unresolved, no Play, Pause or Stop takes
\* effect: state, accum_seconds, session_start and last_resume_at keep the values Stop
\* left them with, although the refresh tick keeps firing.
C14_PromptIsModal ==
    /\ [][ (pc = "dialog" /\ pc' = "dialog") =>
              UNCHANGED <<state, accum_seconds, session_start, session_end,
                          last_resume_at, btn, logs>> ]_vars
    /\ [](pc = "dialog" =>
             /\ state = "idle"
             /\ last_resume_at = None
             /\ accum_seconds = SumTrunc(segs)
             /\ ENABLED tick)

\* the prompt is still open while time has passed and the label has been refreshed
C14_Witness ==
    /\ pc = "dialog"
    /\ now > session_end
    /\ elapsed_lbl = fmt_hms(accum_seconds)
    /\ accum_seconds > 0

\* C15: within a confirmed Stop the structured append comes before the tabular one: the
\* tabular log is never appended to unless the structured append of the same entry has
\* succeeded, and if the structured append fails the tabular append is not attempted.
C15_StructuredBeforeTabular ==
    [][ /\ CsvRows' # CsvRows =>
              /\ Len(jsonl') = Len(jsonl) + 1
              /\ Len(csv') = Len(csv) + 1
              /\ SubSeq(jsonl', 1, Len(jsonl)) = jsonl
              /\ SubSeq(csv', 1, Len(csv)) = csv
              /\ Last(csv')[1] = json_loads(Last(jsonl')).id
        /\ (pc = "dialog" /\ uuid_next' # uuid_next /\ jsonl' = jsonl) =>
              csv' = csv /\ pc' = "error" ]_vars

\* the structured append succeeded and the tabular one failed: the line has no row
C15_Witness ==
    /\ pc = "error"
    /\ Len(jsonl) = 1
    /\ CsvRows = <<>>

\* the process is up: constructed and not ended
Alive == pc \in {"main", "nothing", "dialog", "error", "saved"}

\* C16 as stated: in every reachable state from process start, the initial idle state
\* before any Play included, a refresh is scheduled.
C16_RefreshAlwaysScheduled == Alive => tick_job

\* C16, amended: once a refresh is scheduled (by the first Play) one stays scheduled in
\* every later state, idle after a reset and the modal waits included; a state with no
\* refresh scheduled is the initial idle state, whose label shows 00:00:00.
C16_RefreshScheduledFromFirstPlay ==
    /\ [][tick_job => tick_job']_vars
    /\ []((Alive /\ ~tick_job) =>
            /\ pc = "main"
            /\ state = "idle"
            /\ accum_seconds = 0
            /\ session_start = None
            /\ uuid_next = 0
            /\ elapsed_lbl = fmt_hms(0))

\* idle again after a saved session, the refresh still scheduled
C16_Witness ==
    /\ pc = "main"
    /\ state = "idle"
    /\ tick_job
    /\ uuid_next = 1
    /\ Len(CsvRows) = 1
    /\ elapsed_lbl = fmt_hms(0)

\* C17: in every reachable state last_resume_at is set if and only if state = running:
\* Play sets it, Pause and Stop clear it, also on the cancel and append-failure
\* roll-backs to paused.
C17_ResumeInstantIffRunning ==
    (last_resume_at # None) <=> (state = "running")

\* paused by the roll-back of a Stop whose append failed, last_resume_at clear
C17_Witness ==
    /\ pc = "main"
    /\ state = "paused"
    /\ last_resume_at = None
    /\ uuid_next = 1
    /\ Len(jsonl) = 0
    /\ session_end # None

\* C18: whenever no Stop is in progress, the structured log and the tabular log hold
\* the same sequence of entries (same ids, same order), also after Stops in which an
\* append failed.
C18_LogsHoldSameEntries ==
    pc = "main" =>
       /\ Len(jsonl) = Len(CsvRows)
       /\ \A i \in 1..Len(jsonl) : json_loads(jsonl[i]).id = CsvRows[i][1]

\* C19: whenever the machine is idle and no Stop is in progress the session is fully
\* reset (accum_seconds = 0, session_start, session_end and last_resume_at unset); a
\* non-zero accum_seconds is held only in running or paused, or inside a Stop.
C19_IdleIsFullyReset ==
    /\ (pc = "main" /\ state = "idle") =>
          /\ accum_seconds = 0
          /\ session_start = None
          /\ session_end = None
          /\ last_resume_at = None
    /\ accum_seconds # 0 =>
          \/ state \in {"running", "paused"}
          \/ pc \in {"nothing", "dialog", "error", "saved"}

\* idle again after a Stop that had nothing to save: a session was begun and discarded
C19_Witness ==
    /\ pc = "main"
    /\ state = "idle"
    /\ tick_job
    /\ uuid_next = 0
    /\ session_start = None
    /\ now > 1

\* C20: while the wall clock has not gone backwards, every entry persisted has
\* session_start <= session_end and 0 < duration_seconds <= session_end -
\* session_start, also after cancelled and failed Stops followed by a resume.
C20_DurationWithinSessionSpan ==
    [][ (jsonl' # jsonl /\ ~clock_back) =>
           /\ Len(jsonl') = Len(jsonl) + 1
           /\ session_start # None
           /\ session_end # None
           /\ session_start <= session_end
           /\ json_loads(Last(jsonl')).start_iso = isoformat(session_start)
           /\ json_loads(Last(jsonl')).end_iso = isoformat(session_end)
           /\ json_loads(Last(jsonl')).duration_seconds > 0
           /\ json_loads(Last(jsonl')).duration_seconds * Res
                 <= session_end - session_start ]_vars

\* an entry saved on the retry of a failed Stop, after a resume: two segments with
\* time between them that the duration leaves out
C20_Witness ==
    /\ pc = "saved"
    /\ ~clock_back
    /\ uuid_next = 2
    /\ Len(jsonl) = 1
    /\ Len(segs) = 2
    /\ Gaps(segs) > 0
    /\ json_loads(Last(jsonl)).duration_seconds * Res < session_end - session_start
====
